---- MODULE Spec2Model ----
(***************************************************************************)
(* dashboard.py: the resource-value parser, the pod / node / utilization   *)
(* decoders, the node left join and the pod pivot, and the two query       *)
(* operations get_pods and get_node_info on top of run_cmd.                *)
(*                                                                         *)
(* Python values are tagged records ([t |-> "str", v |-> ...]) so that the *)
(* type tests the interpreter makes (truthiness, json.loads' argument      *)
(* check, attribute lookup) are decided by the model and not assumed.  A   *)
(* str holding a resource value or a text line is a sequence of            *)
(* one-character strings.  A float is kept exactly, as                     *)
(* mant / 10^frac * base^exp, so no rounding is modelled.                  *)
(***************************************************************************)
EXTENDS Integers, Sequences, FiniteSets, TLC

VARIABLES
    raw,        \* parse_resource_value: the argument v
    parse_pc,   \* parse_resource_value: "call", "returned" or "raised"
    parsed,     \* parse_resource_value: the value returned
    pc,         \* per poll cycle: "idle", "fetched" or "done"
    op,         \* per poll cycle: the query it runs, get_pods or get_node_info
    fetched,    \* per poll cycle: what the command it ran did (its raw payload)
    outs,       \* per poll cycle: the local out of its call
    results,    \* per poll cycle: what its call returned or raised
    pivot_pc,   \* main's tables: "decode", "loaded", "raised", "returned", "shown"
    listing,    \* main's tables: the decoded pod listing (data)
    pods_df,    \* main: the frame get_pods returns
    ms_node_df, \* main: pods per (node, microservice)
    pivot,      \* main: the pivot of ms_node_df
    pods_per_node,  \* main: pods per node
    join_pc,    \* node view: "nodes", "top", "merge", "raised", "done"
    node_listing,   \* node view: the decoded node listing (data)
    top_text,   \* node view: the utilization text
    nodes_base, \* node view: base_df
    nodes_metrics,  \* node view: metrics_df
    nodes_df    \* node view: merged

parse_vars == <<raw, parse_pc, parsed>>
poll_vars == <<pc, op, fetched, outs, results>>
pivot_vars == <<pivot_pc, listing, pods_df, ms_node_df, pivot, pods_per_node>>
join_vars == <<join_pc, node_listing, top_text, nodes_base, nodes_metrics, nodes_df>>
vars == <<parse_vars, poll_vars, pivot_vars, join_vars>>

\* ---------------------------------------------------------------- bounds
\* longest resource string handed to parse_resource_value
MaxLen == 4

\* ------------------------------------------------------- Python strings
Digits == {"1", "5"}
\* characters of the resource strings: digits, the point, a sign, the unit
\* letters of the suffix table, "m", and "i" (also the non-unit letter)
Alphabet == Digits \cup {".", "-", "m", "K", "M", "G", "T", "i"}

StrsUpTo(n) == UNION {[1..k -> Alphabet] : k \in 0..n}

DigitVal(c) == CASE c = "1" -> 1 [] c = "5" -> 5

PyNone == [t |-> "NoneType"]
PyStr(s) == [t |-> "str", v |-> s]

\* str.endswith
EndsWith(s, suf) ==
    /\ Len(s) >= Len(suf)
    /\ SubSeq(s, Len(s) - Len(suf) + 1, Len(s)) = suf

\* s[:-n]
DropLast(s, n) == SubSeq(s, 1, Len(s) - n)

\* str.replace(".", "", 1): the first point removed
ReplaceFirstDot(s) ==
    IF \E i \in 1..Len(s) : s[i] = "."
    THEN LET i == CHOOSE j \in 1..Len(s) :
                      s[j] = "." /\ \A k \in 1..(j - 1) : s[k] # "."
         IN SubSeq(s, 1, i - 1) \o SubSeq(s, i + 1, Len(s))
    ELSE s

\* str.isdigit: non-empty and digits only
IsDigit(s) == Len(s) > 0 /\ \A i \in 1..Len(s) : s[i] \in Digits

RECURSIVE DigitsToInt(_)
DigitsToInt(s) ==
    IF Len(s) = 0 THEN 0
    ELSE 10 * DigitsToInt(DropLast(s, 1)) + DigitVal(s[Len(s)])

\* float(s) on the strings of Alphabet: an optional "-", then digits with at
\* most one point and at least one digit; anything else is a ValueError.
\* The value is mant / 10^frac.
PyFloat(s) ==
    LET neg == Len(s) > 0 /\ s[1] = "-"
        body == IF neg THEN SubSeq(s, 2, Len(s)) ELSE s
        ds == ReplaceFirstDot(body)
        dots == Cardinality({i \in 1..Len(body) : body[i] = "."})
        first == IF dots = 0 THEN Len(body) + 1
                 ELSE CHOOSE j \in 1..Len(body) : body[j] = "."
    IN IF IsDigit(ds) /\ dots <= 1
       THEN [exc |-> "none",
             mant |-> (IF neg THEN -1 ELSE 1) * DigitsToInt(ds),
             frac |-> IF dots = 0 THEN 0 ELSE Len(body) - first]
       ELSE [exc |-> "ValueError"]

\* --------------------------------------------------- parse_resource_value
\* a float result: mant / 10^frac * base^exp
Float(f, base, exp) ==
    [exc |-> "none", mant |-> f.mant, frac |-> f.frac, base |-> base, exp |-> exp]

Zero == [exc |-> "none", mant |-> 0, frac |-> 0, base |-> 1, exp |-> 0]

Raise(e) == [exc |-> e]

\* the multipliers dict, in insertion order: <<suffix, base, exp>>
multipliers_swapped ==
    [i \in 1..8 |->
        CASE i = 1 -> << <<"K", "i">>, 1000, 1 >>
          [] i = 2 -> << <<"M", "i">>, 1000, 2 >>
          [] i = 3 -> << <<"G", "i">>, 1000, 3 >>
          [] i = 4 -> << <<"T", "i">>, 1000, 4 >>
          [] i = 5 -> << <<"K">>, 1024, 1 >>
          [] i = 6 -> << <<"M">>, 1024, 2 >>
          [] i = 7 -> << <<"G">>, 1024, 3 >>
          [] i = 8 -> << <<"T">>, 1024, 4 >>]

multipliers ==
    [i \in 1..8 |->
        CASE i = 1 -> << <<"K", "i">>, 1024, 1 >>
          [] i = 2 -> << <<"M", "i">>, 1024, 2 >>
          [] i = 3 -> << <<"G", "i">>, 1024, 3 >>
          [] i = 4 -> << <<"T", "i">>, 1024, 4 >>
          [] i = 5 -> << <<"K">>, 1000, 1 >>
          [] i = 6 -> << <<"M">>, 1000, 2 >>
          [] i = 7 -> << <<"G">>, 1000, 3 >>
          [] i = 8 -> << <<"T">>, 1000, 4 >>]

\* float(...) * mult of lines 95, 97 and 114, or what the failure of float()
\* leads to: the ValueError itself, or the 0.0 of the except clause
TimesOrElse(f, base, exp, otherwise) ==
    IF f.exc = "none" THEN Float(f, base, exp) ELSE otherwise

\* the first suffix, in dict order, that v ends with; 0 when there is none
FirstHit(v) ==
    IF \A i \in 1..8 : ~EndsWith(v, multipliers[i][1]) THEN 0
    ELSE CHOOSE j \in 1..8 :
            /\ EndsWith(v, multipliers[j][1])
            /\ \A k \in 1..(j - 1) : ~EndsWith(v, multipliers[k][1])

\* lines 112-116 for the suffix at place i of the dict
SuffixAt(v, i) ==
    IF i = 0 THEN Zero
    ELSE TimesOrElse(PyFloat(DropLast(v, Len(multipliers[i][1]))),
                     multipliers[i][2], multipliers[i][3], Zero)

\* the for loop of lines 111-118: the first suffix that v ends with decides
SuffixLoop(v) == SuffixAt(v, FirstHit(v))

parse_resource_value(v) ==
    IF v.t = "NoneType" \/ (v.t = "str" /\ v.v = <<>>) THEN Zero
    ELSE IF EndsWith(v.v, <<"m">>)
    THEN TimesOrElse(PyFloat(DropLast(v.v, 1)), 1000, -1, Raise("ValueError"))
    ELSE IF IsDigit(ReplaceFirstDot(v.v))
    THEN TimesOrElse(PyFloat(v.v), 1, 0, Raise("ValueError"))
    ELSE SuffixLoop(v.v)

\* main's tables not in use
PivotOff ==
    /\ pivot_pc = "off"
    /\ listing = PyNone
    /\ pods_df = <<>>
    /\ ms_node_df = <<>>
    /\ pivot = <<>>
    /\ pods_per_node = <<>>

\* the node view not in use
JoinOff ==
    /\ join_pc = "off"
    /\ node_listing = PyNone
    /\ top_text = <<>>
    /\ nodes_base = <<>>
    /\ nodes_metrics = <<>>
    /\ nodes_df = <<>>

\* the parser not in use
ParseOff ==
    /\ raw = PyNone
    /\ parse_pc = "off"
    /\ parsed = Zero

\* --------------------------------------------------------- Python values
Return(x) == [exc |-> "none", val |-> x]

PyTuple(seq) == [t |-> "tuple", v |-> seq]
PyInt(n) == [t |-> "int", v |-> n]
PyList(seq) == [t |-> "list", v |-> seq]
\* a dict is a function from its keys (strings) to Python values
PyDict(f) == [t |-> "dict", v |-> f]
EmptyDict == PyDict([k \in {} |-> PyNone])
\* a str that holds a document's text: its characters, and the value
\* json.loads decodes from them (PyInvalid when they are no JSON document)
PyInvalid == [t |-> "invalid"]
PyText(chars, doc) == [t |-> "str", v |-> chars, json |-> doc]

\* bool(x) for the values the code tests: a str, tuple or list is true when
\* it is not empty, None is false
Truthy(x) ==
    CASE x.t \in {"str", "tuple", "list"} -> Len(x.v) > 0
      [] x.t = "NoneType" -> FALSE
      [] OTHER -> TRUE

IsSpace(c) == c \in {" ", "\n"}

RECURSIVE LStrip(_)
LStrip(s) == IF Len(s) > 0 /\ IsSpace(s[1]) THEN LStrip(Tail(s)) ELSE s

RECURSIVE RStrip(_)
RStrip(s) == IF Len(s) > 0 /\ IsSpace(s[Len(s)]) THEN RStrip(DropLast(s, 1)) ELSE s

\* str.strip(); the text still decodes to the same document
Strip(x) == [x EXCEPT !.v = RStrip(LStrip(x.v))]

\* json.loads(x): a TypeError unless x is a str, bytes or bytearray, a
\* JSONDecodeError when the text is no JSON document
json_loads(x) ==
    IF x.t \notin {"str", "bytes", "bytearray"} THEN Raise("TypeError")
    ELSE IF x.json.t = "invalid" THEN Raise("JSONDecodeError")
    ELSE Return(x.json)

\* d.get(key, default): an AttributeError when d has no get (None, a list)
HasGet(d) == d.t = "dict"

Get(d, key, default) ==
    IF HasGet(d) /\ key \in DOMAIN d.v THEN d.v[key] ELSE default

\* ------------------------------------------------------------------ run_cmd
\* what subprocess.run does: it raises (the program is missing), or it
\* completes with stdout, stderr and a return code
Raised(msg) == [raises |-> TRUE, msg |-> msg]
Completed(stdout, stderr, returncode) ==
    [raises |-> FALSE, stdout |-> stdout, stderr |-> stderr, returncode |-> returncode]

\* run_cmd returns the tuple (stdout, stderr, returncode)
run_cmd(proc) ==
    IF proc.raises
    THEN PyTuple(<<PyText(<<>>, PyInvalid), proc.msg, PyInt(1)>>)
    ELSE PyTuple(<<Strip(proc.stdout), Strip(proc.stderr), PyInt(proc.returncode)>>)

\* ----------------------------------------------------- pandas, as used here
\* a DataFrame is the sequence of its rows; DataFrame() and DataFrame([])
\* have none
EmptyDataFrame == <<>>

DataFrameEmpty(df) == Len(df) = 0

\* the code points of the characters that names are made of
CodePoint(c) ==
    CASE c = "1" -> 49 [] c = "2" -> 50 [] c = "5" -> 53
      [] c = "a" -> 97 [] c = "b" -> 98 [] c = "n" -> 110 [] c = "p" -> 112

\* s < t for two str, as Python orders them
RECURSIVE StrLess(_, _)
StrLess(s, t) ==
    IF Len(t) = 0 THEN FALSE
    ELSE IF Len(s) = 0 THEN TRUE
    ELSE IF s[1] # t[1] THEN CodePoint(s[1]) < CodePoint(t[1])
    ELSE StrLess(Tail(s), Tail(t))

\* row r sorts strictly before row q under sort_values(["microservice", "pod"])
PodRowLess(r, q) ==
    \/ StrLess(r.microservice, q.microservice)
    \/ r.microservice = q.microservice /\ StrLess(r.pod, q.pod)

\* r put into the sorted rows after every row that does not sort after it
RECURSIVE InsertRow(_, _)
InsertRow(sorted, r) ==
    IF Len(sorted) = 0 THEN <<r>>
    ELSE IF PodRowLess(r, sorted[Len(sorted)])
    THEN Append(InsertRow(DropLast(sorted, 1), r), sorted[Len(sorted)])
    ELSE Append(sorted, r)

\* df.sort_values(["microservice", "pod"]): with several keys pandas sorts by
\* a lexsort, which is stable
RECURSIVE SortValues(_)
SortValues(df) ==
    IF Len(df) = 0 THEN <<>>
    ELSE InsertRow(SortValues(DropLast(df, 1)), df[Len(df)])

\* --------------------------------------------------- get_pods, lines 55-80
\* lines 64-75: the row of one item
PodRow(item) ==
    IF ~HasGet(item) THEN Raise("AttributeError")
    ELSE LET meta == Get(item, "metadata", EmptyDict)
             spec == Get(item, "spec", EmptyDict)
             status == Get(item, "status", EmptyDict)
         IN IF ~HasGet(meta) THEN Raise("AttributeError")
            ELSE LET labels == Get(meta, "labels", EmptyDict)
                 IN IF ~HasGet(labels) \/ ~HasGet(spec) \/ ~HasGet(status)
                    THEN Raise("AttributeError")
                    ELSE Return([microservice |-> Get(labels, "app", PyStr(<<>>)).v,
                                 svc_id |-> Get(labels, "svc-id", PyStr(<<>>)).v,
                                 pod |-> Get(meta, "name", PyStr(<<>>)).v,
                                 node |-> Get(spec, "nodeName", PyStr(<<>>)).v,
                                 phase |-> Get(status, "phase", PyStr(<<>>)).v])

\* rows.append(...): the rows so far with one more, or the first exception
AppendRow(before, r) ==
    IF before.exc # "none" THEN before
    ELSE IF r.exc # "none" THEN r
    ELSE Return(Append(before.val, r.val))

\* lines 62-75: the rows of the items, or the first exception
RECURSIVE PodRows(_)
PodRows(items) ==
    IF Len(items) = 0 THEN Return(<<>>)
    ELSE AppendRow(PodRows(DropLast(items, 1)), PodRow(items[Len(items)]))

\* lines 77-80: the frame of the rows, sorted when it is not empty
SortedFrame(rows) ==
    IF rows.exc # "none" THEN rows
    ELSE IF ~DataFrameEmpty(rows.val) THEN Return(SortValues(rows.val))
    ELSE Return(rows.val)

\* data.get("items", [])
ItemsOf(data) == Get(data, "items", PyList(<<>>))

\* lines 62-80 on the decoded document
DecodePods(data) ==
    IF ~HasGet(data) THEN Raise("AttributeError")
    ELSE IF ItemsOf(data).t # "list" THEN Raise("TypeError")
    ELSE SortedFrame(PodRows(ItemsOf(data).v))

\* lines 61-80 once json.loads has returned or raised
PodsOfLoaded(data) == IF data.exc # "none" THEN data ELSE DecodePods(data.val)

\* get_pods after out = run_cmd(cmd): lines 58-80
get_pods(out) ==
    IF ~Truthy(out) THEN Return(EmptyDataFrame) ELSE PodsOfLoaded(json_loads(out))

\* ---------------------------------------------- get_node_info, lines 121-177
\* lines 137-143: the row of the parsed values, or the first exception, in the
\* order the lines run
CapacityRow(name, capacity, cc, mc, alloc, ca, ma) ==
    IF ~HasGet(capacity) THEN Raise("AttributeError")
    ELSE IF cc.exc # "none" THEN cc
    ELSE IF mc.exc # "none" THEN mc
    ELSE IF ~HasGet(alloc) THEN Raise("AttributeError")
    ELSE IF ca.exc # "none" THEN ca
    ELSE IF ma.exc # "none" THEN ma
    ELSE Return([node |-> name,
                 cpu_capacity_cores |-> cc,
                 mem_capacity_bytes |-> mc,
                 cpu_alloc_cores |-> ca,
                 mem_alloc_bytes |-> ma])

\* lines 134-143 for the name, capacity and allocatable of an item
NodeRowOf(name, capacity, alloc) ==
    CapacityRow(name, capacity,
                parse_resource_value(Get(capacity, "cpu", PyNone)),
                parse_resource_value(Get(capacity, "memory", PyNone)),
                alloc,
                parse_resource_value(Get(alloc, "cpu", PyNone)),
                parse_resource_value(Get(alloc, "memory", PyNone)))

\* lines 131-143: the capacity row of one item
NodeRow(item) ==
    IF ~HasGet(item) THEN Raise("AttributeError")
    ELSE IF ~HasGet(Get(item, "metadata", EmptyDict))
            \/ ~HasGet(Get(item, "status", EmptyDict))
    THEN Raise("AttributeError")
    ELSE NodeRowOf(Get(Get(item, "metadata", EmptyDict), "name", PyStr(<<>>)).v,
                   Get(Get(item, "status", EmptyDict), "capacity", EmptyDict),
                   Get(Get(item, "status", EmptyDict), "allocatable", EmptyDict))

\* lines 129-143: the rows of the items, or the first exception
RECURSIVE NodeRows(_)
NodeRows(items) ==
    IF Len(items) = 0 THEN Return(<<>>)
    ELSE AppendRow(NodeRows(DropLast(items, 1)), NodeRow(items[Len(items)]))

\* lines 129-145 on the decoded document: base_df
DecodeNodes(data) ==
    IF ~HasGet(data) THEN Raise("AttributeError")
    ELSE IF ItemsOf(data).t # "list" THEN Raise("TypeError")
    ELSE NodeRows(ItemsOf(data).v)

\* str.splitlines() on "\n": the lines, without a last empty one
RECURSIVE SplitLines(_)
SplitLines(s) ==
    IF Len(s) = 0 THEN <<>>
    ELSE IF \E i \in 1..Len(s) : s[i] = "\n"
    THEN LET i == CHOOSE j \in 1..Len(s) :
                      s[j] = "\n" /\ \A k \in 1..(j - 1) : s[k] # "\n"
         IN <<SubSeq(s, 1, i - 1)>> \o SplitLines(SubSeq(s, i + 1, Len(s)))
    ELSE <<s>>

\* str.split(): the maximal runs of characters that are not whitespace
RECURSIVE Split(_)
Split(s) ==
    LET t == LStrip(s)
    IN IF Len(t) = 0 THEN <<>>
       ELSE LET n == IF \E i \in 1..Len(t) : IsSpace(t[i])
                     THEN (CHOOSE j \in 1..Len(t) :
                              IsSpace(t[j]) /\ \A k \in 1..(j - 1) : ~IsSpace(t[k])) - 1
                     ELSE Len(t)
            IN <<SubSeq(t, 1, n)>> \o Split(SubSeq(t, n + 1, Len(t)))

\* lines 156-169: the rows so far with the row of parts, or the first exception
AppendMetric(before, parts, cpu, mem) ==
    IF before.exc # "none" THEN before
    ELSE IF cpu.exc # "none" THEN cpu
    ELSE IF mem.exc # "none" THEN mem
    ELSE Return(Append(before.val,
                       [node |-> parts[1],
                        cpu_used_cores_raw |-> parts[2],
                        cpu_used_cores |-> cpu,
                        cpu_used_pct |-> parts[3],
                        mem_used_bytes_raw |-> parts[4],
                        mem_used_bytes |-> mem,
                        mem_used_pct |-> parts[5]]))

\* lines 153-169 for one line split into parts
MetricOfParts(before, parts) ==
    IF Len(parts) >= 5
    THEN AppendMetric(before, parts, parse_resource_value(PyStr(parts[2])),
                      parse_resource_value(PyStr(parts[4])))
    ELSE before

\* lines 152-169: the utilization rows of the lines, or the first exception
RECURSIVE MetricRows(_)
MetricRows(lines) ==
    IF Len(lines) = 0 THEN Return(<<>>)
    ELSE MetricOfParts(MetricRows(DropLast(lines, 1)), Split(lines[Len(lines)]))

\* lines 150-171 on top_out: metrics_df
DecodeTop(top_out) ==
    IF ~Truthy(top_out) THEN Return(<<>>)
    ELSE IF top_out.t # "str" THEN Raise("AttributeError")
    ELSE MetricRows(SplitLines(top_out.v))

\* the utilization columns of a merged row without a match (NaN), and of
\* base_df returned as it is (no such columns)
NaN == [t |-> "NaN"]
NoColumns == [t |-> "missing"]

\* the indices of the metrics rows whose node is that of base row b, ascending
MatchesOf(b, metrics_df) == {j \in 1..Len(metrics_df) : metrics_df[j].node = b.node}

RECURSIVE RowsOfMatches(_, _, _)
RowsOfMatches(b, metrics_df, js) ==
    IF js = {} THEN <<>>
    ELSE LET j == CHOOSE x \in js : \A y \in js : x <= y
         IN <<[base |-> b, metrics |-> metrics_df[j]]>>
                \o RowsOfMatches(b, metrics_df, js \ {j})

\* pd.merge(base_df, metrics_df, on="node", how="left"): the base rows in
\* order, each once per metrics row of its node, or once with NaN when it
\* has none
RECURSIVE pd_merge(_, _)
pd_merge(base_df, metrics_df) ==
    IF Len(base_df) = 0 THEN <<>>
    ELSE LET b == base_df[Len(base_df)]
             js == MatchesOf(b, metrics_df)
         IN pd_merge(DropLast(base_df, 1), metrics_df)
              \o (IF js = {} THEN <<[base |-> b, metrics |-> NaN]>>
                  ELSE RowsOfMatches(b, metrics_df, js))

\* lines 172-175: merged
merged(base_df, metrics_df) ==
    IF ~DataFrameEmpty(base_df) /\ ~DataFrameEmpty(metrics_df)
    THEN pd_merge(base_df, metrics_df)
    ELSE [i \in 1..Len(base_df) |-> [base |-> base_df[i], metrics |-> NoColumns]]

\* line 145 reached: base_df, and no return yet
Continue(rows) ==
    IF rows.exc # "none" THEN rows
    ELSE [exc |-> "none", returned |-> FALSE, val |-> rows.val]

\* lines 128-145 once json.loads has returned or raised
BaseOfLoaded(data) ==
    IF data.exc # "none" THEN data ELSE Continue(DecodeNodes(data.val))

\* get_node_info after out = run_cmd(cmd), lines 125-145: the early return
\* (returned), an exception, or base_df
get_node_info_base(out) ==
    IF ~Truthy(out)
    THEN [exc |-> "none", returned |-> TRUE, val |-> <<EmptyDataFrame, EmptyDataFrame>>]
    ELSE BaseOfLoaded(json_loads(out))

\* lines 171-177: (merged, metrics_df), or the exception of the decoding
NodeView(base_df, metrics_df) ==
    IF metrics_df.exc # "none" THEN metrics_df
    ELSE Return(<<merged(base_df, metrics_df.val), metrics_df.val>>)

\* get_node_info, lines 147-177: top is what `kubectl top nodes` does
get_node_info_rest(base_df, top) == NodeView(base_df, DecodeTop(run_cmd(top)))

\* lines 125-177 once lines 125-145 have run
Finish(b, top) ==
    IF b.exc # "none" THEN b
    ELSE IF b.returned THEN Return(b.val)
    ELSE get_node_info_rest(b.val, top)

\* get_node_info after out = run_cmd(cmd): lines 125-177
get_node_info(out, top) == Finish(get_node_info_base(out), top)

Continues(b) == b.exc = "none" /\ ~b.returned

\* whether get_node_info gets to run its second command (line 149)
RunsTop(out) == Continues(get_node_info_base(out))

\* ------------------------------------------------------------ poll cycles
\* the number of poll cycles in flight
NumCycles == 2

Cycles == 1..NumCycles

NodeNames == {<<"n", "1">>, <<"n", "2">>}
Apps == {<<"a">>, <<"b">>}
PodNames == {<<"p", "1">>, <<"p", "2">>}
Running == <<"R", "u", "n", "n", "i", "n", "g">>

\* an item of `kubectl get pods -o json`
PodItem(labels, name, node) ==
    PyDict([metadata |-> PyDict([labels |-> labels, name |-> PyStr(name)]),
            spec |-> PyDict([nodeName |-> PyStr(node)]),
            status |-> PyDict([phase |-> PyStr(Running)])])

\* an item of `kubectl get nodes -o json`
NodeItem(name, cpu, memory) ==
    PyDict([metadata |-> PyDict([name |-> PyStr(name)]),
            status |-> PyDict([capacity |-> PyDict([cpu |-> PyStr(cpu),
                                                    memory |-> PyStr(memory)]),
                               allocatable |-> PyDict([cpu |-> PyStr(cpu),
                                                       memory |-> PyStr(memory)])])])

Listing(items) == PyDict([items |-> PyList(items)])

\* the text of a JSON document
JsonText(doc) == PyText(<<"{", "}">>, doc)

\* a line of `kubectl top nodes --no-headers`: the tokens, a blank between
RECURSIVE TopLine(_)
TopLine(tokens) ==
    IF Len(tokens) = 0 THEN <<>>
    ELSE IF Len(tokens) = 1 THEN tokens[1]
    ELSE tokens[1] \o <<" ">> \o TopLine(Tail(tokens))

\* per poll cycle fetched is the sequence of what each command it ran did
\* what the polled commands print: nothing, white space, text that is no
\* JSON, a listing without items, a pod listing, a node listing, a
\* utilization table
Stdouts ==
    { PyText(<<>>, PyInvalid),
      PyText(<<"\n">>, PyInvalid),
      PyText(<<"E", "r", "r", "o", "r">>, PyInvalid),
      JsonText(EmptyDict),
      JsonText(Listing(<<PodItem(PyDict([app |-> PyStr(<<"b">>)]), <<"p", "2">>, <<"n", "1">>),
                         PodItem(PyDict([app |-> PyStr(<<"a">>)]), <<"p", "1">>, <<"n", "2">>)>>)),
      JsonText(Listing(<<NodeItem(<<"n", "1">>, <<"5">>, <<"1", "K", "i">>)>>)),
      PyText(TopLine(<< <<"n", "1">>, <<"5", "m">>, <<"1", "%">>, <<"1", "K", "i">>, <<"5", "%">> >>),
             PyInvalid) }

NoText == PyText(<<>>, PyInvalid)
ErrText == PyText(<<"e", "r", "r">>, PyInvalid)

\* what subprocess.run may do for a polled command
Procs ==
    {Raised(ErrText)}
        \cup {Completed(so, NoText, 0) : so \in Stdouts}
        \cup {Completed(so, ErrText, 1) : so \in Stdouts}

NoResult == Raise("pending")

PollOff ==
    /\ pc = [c \in Cycles |-> "off"]
    /\ op = [c \in Cycles |-> "none"]
    /\ fetched = [c \in Cycles |-> <<>>]
    /\ outs = [c \in Cycles |-> PyNone]
    /\ results = [c \in Cycles |-> NoResult]

Init ==
    /\ pc = [c \in Cycles |-> "idle"]
    /\ op = [c \in Cycles |-> "none"]
    /\ fetched = [c \in Cycles |-> <<>>]
    /\ outs = [c \in Cycles |-> PyNone]
    /\ results = [c \in Cycles |-> NoResult]
    /\ ParseOff
    /\ PivotOff
    /\ JoinOff

\* out = ..., a local of the call of cycle c
StoreShared(frames, c, val) == [k \in DOMAIN frames |-> val]

StoreLocal(frames, c, val) == [frames EXCEPT ![c] = val]

\* get_pods, lines 56-57: the command runs and out is bound
CallGetPods(c) ==
    /\ pc[c] = "idle"
    /\ \E proc \in Procs :
          /\ fetched' = [fetched EXCEPT ![c] = <<proc>>]
          /\ outs' = StoreLocal(outs, c, run_cmd(proc))
    /\ op' = [op EXCEPT ![c] = "get_pods"]
    /\ pc' = [pc EXCEPT ![c] = "fetched"]
    /\ UNCHANGED <<results, parse_vars, pivot_vars, join_vars>>

\* get_pods, lines 58-80
ReturnGetPods(c) ==
    /\ pc[c] = "fetched"
    /\ op[c] = "get_pods"
    /\ results' = [results EXCEPT ![c] = get_pods(outs[c])]
    /\ pc' = [pc EXCEPT ![c] = "done"]
    /\ UNCHANGED <<op, fetched, outs, parse_vars, pivot_vars, join_vars>>

\* get_node_info, lines 123-124
CallGetNodeInfo(c) ==
    /\ pc[c] = "idle"
    /\ \E proc \in Procs :
          /\ fetched' = [fetched EXCEPT ![c] = <<proc>>]
          /\ outs' = StoreLocal(outs, c, run_cmd(proc))
    /\ op' = [op EXCEPT ![c] = "get_node_info"]
    /\ pc' = [pc EXCEPT ![c] = "fetched"]
    /\ UNCHANGED <<results, parse_vars, pivot_vars, join_vars>>

\* get_node_info, lines 125-177; its second command, `kubectl top nodes`,
\* runs inside this step when the code gets to line 149
ReturnGetNodeInfo(c) ==
    /\ pc[c] = "fetched"
    /\ op[c] = "get_node_info"
    /\ \E top \in Procs :
          /\ results' = [results EXCEPT ![c] = get_node_info(outs[c], top)]
          /\ fetched' = [fetched EXCEPT ![c] = IF RunsTop(outs[c]) THEN Append(@, top) ELSE @]
    /\ pc' = [pc EXCEPT ![c] = "done"]
    /\ UNCHANGED <<op, outs, parse_vars, pivot_vars, join_vars>>

Next ==
    \E c \in Cycles :
        \/ CallGetPods(c)
        \/ ReturnGetPods(c)
        \/ CallGetNodeInfo(c)
        \/ ReturnGetNodeInfo(c)

Spec == Init /\ [][Next]_vars

\* ------------------------------------------- main's tables, lines 224-267
\* most pods in a listing
MaxPods == 3

NodesOf(df) == {df[i].node : i \in 1..Len(df)}
ServicesOf(df) == {df[i].microservice : i \in 1..Len(df)}

\* the str of a set in ascending order: the order of the group keys
RECURSIVE SortedStrs(_)
SortedStrs(S) ==
    IF S = {} THEN <<>>
    ELSE LET least == CHOOSE x \in S : \A y \in S \ {x} : StrLess(x, y)
         IN <<least>> \o SortedStrs(S \ {least})

\* .size() of the group (n, m): the number of its rows
SizeOfUnique(df, n, m) ==
    Cardinality({df[i].pod : i \in {j \in 1..Len(df) :
                    df[j].node = n /\ df[j].microservice = m}})

SizeOf(df, n, m) ==
    Cardinality({i \in 1..Len(df) : df[i].node = n /\ df[i].microservice = m})

\* the groups of node n that have rows, by microservice
RECURSIVE GroupsOfNode(_, _, _)
GroupsOfNode(df, n, ms) ==
    IF Len(ms) = 0 THEN <<>>
    ELSE (IF SizeOf(df, n, ms[1]) > 0
          THEN <<[node |-> n, microservice |-> ms[1], pods |-> SizeOf(df, n, ms[1])]>>
          ELSE <<>>) \o GroupsOfNode(df, n, Tail(ms))

RECURSIVE GroupsOfNodes(_, _, _)
GroupsOfNodes(df, ns, ms) ==
    IF Len(ns) = 0 THEN <<>>
    ELSE GroupsOfNode(df, ns[1], ms) \o GroupsOfNodes(df, Tail(ns), ms)

\* line 255: groupby(["node", "microservice"]).size().reset_index(name="pods")
GroupBySize(df) ==
    GroupsOfNodes(df, SortedStrs(NodesOf(df)), SortedStrs(ServicesOf(df)))

\* a cell of the pivot: the pods of the group, NaN filled with 0
PivotCell(g, n, m) ==
    IF \E k \in 1..Len(g) : g[k].node = n /\ g[k].microservice = m
    THEN g[CHOOSE k \in 1..Len(g) : g[k].node = n /\ g[k].microservice = m].pods
    ELSE 0

\* line 256: pivot(index="node", columns="microservice", values="pods")
\*           .fillna(0).astype(int)
PivotTable(g) ==
    [index |-> SortedStrs(NodesOf(g)),
     columns |-> SortedStrs(ServicesOf(g)),
     cells |-> [n \in NodesOf(g) |-> [m \in ServicesOf(g) |-> PivotCell(g, n, m)]]]

RECURSIVE NodeCounts(_, _)
NodeCounts(df, ns) ==
    IF Len(ns) = 0 THEN <<>>
    ELSE <<[node |-> ns[1],
            pod_count |-> Cardinality({i \in 1..Len(df) : df[i].node = ns[1]})]>>
            \o NodeCounts(df, Tail(ns))

\* line 266: groupby("node").size().reset_index(name="pod_count")
GroupByNode(df) == NodeCounts(df, SortedStrs(NodesOf(df)))

\* the items of the pod listings: no label, or an app label; a name; a node
PivotItems ==
    {PodItem(labels, name, node) :
        labels \in {EmptyDict} \cup {PyDict([app |-> PyStr(a)]) : a \in Apps},
        name \in PodNames, node \in NodeNames}
    \cup {PyDict([metadata |-> PyNone])}

PivotListings ==
    {Listing(items) : items \in UNION {[1..k -> PivotItems] : k \in 0..MaxPods}}

PivotInit ==
    /\ pivot_pc = "decode"
    /\ listing \in PivotListings
    /\ pods_df = <<>>
    /\ ms_node_df = <<>>
    /\ pivot = <<>>
    /\ pods_per_node = <<>>
    /\ ParseOff
    /\ PollOff
    /\ JoinOff

\* line 224, pods_df = get_pods("default"), for a listing that json.loads
\* returned: lines 62-80
LoadPods ==
    /\ pivot_pc = "decode"
    /\ pivot_pc' = IF DecodePods(listing).exc = "none" THEN "loaded" ELSE "raised"
    /\ pods_df' = IF DecodePods(listing).exc = "none" THEN DecodePods(listing).val ELSE <<>>
    /\ UNCHANGED <<listing, ms_node_df, pivot, pods_per_node,
                   parse_vars, poll_vars, join_vars>>

\* lines 227-229: no pods, main reports it and returns
NoPods ==
    /\ pivot_pc = "loaded"
    /\ DataFrameEmpty(pods_df)
    /\ pivot_pc' = "returned"
    /\ UNCHANGED <<listing, pods_df, ms_node_df, pivot, pods_per_node,
                   parse_vars, poll_vars, join_vars>>

\* lines 255-266: the tables
ShowTables ==
    /\ pivot_pc = "loaded"
    /\ ~DataFrameEmpty(pods_df)
    /\ ms_node_df' = GroupBySize(pods_df)
    /\ pivot' = PivotTable(GroupBySize(pods_df))
    /\ pods_per_node' = GroupByNode(pods_df)
    /\ pivot_pc' = "shown"
    /\ UNCHANGED <<listing, pods_df, parse_vars, poll_vars, join_vars>>

PivotNext == LoadPods \/ NoPods \/ ShowTables

SpecPivot == PivotInit /\ [][PivotNext]_vars

\* --------------------------------------------- the node view, lines 129-175
\* most items in a node listing
MaxNodes == 2
\* most lines in a utilization text
MaxLines == 2

\* the items of the node listings: a name, a cpu capacity in cores or in
\* millicores, and one whose cpu has no number before the "m"
JoinItems ==
    {NodeItem(name, cpu, <<"1", "K", "i">>) :
        name \in NodeNames, cpu \in {<<"5">>, <<"5", "m">>}}
    \cup {NodeItem(<<"n", "1">>, <<"m">>, <<"1", "K", "i">>)}

JoinListings ==
    {Listing(items) : items \in UNION {[1..k -> JoinItems] : k \in 0..MaxNodes}}

\* the lines of the utilization texts: five tokens for n1 (two different
\* readings) and for n2, six tokens, and two tokens only
JoinLines ==
    { TopLine(<< <<"n", "1">>, <<"5", "m">>, <<"1", "%">>, <<"1", "K", "i">>, <<"5", "%">> >>),
      TopLine(<< <<"n", "1">>, <<"1", "m">>, <<"5", "%">>, <<"5", "K", "i">>, <<"1", "%">> >>),
      TopLine(<< <<"n", "2">>, <<"5">>, <<"1", "%">>, <<"1", "M">>, <<"5", "%">> >>),
      TopLine(<< <<"n", "2">>, <<"5", "m">>, <<"1", "%">>, <<"1", "K", "i">>, <<"5", "%">>, <<"x">> >>),
      <<" ">> \o TopLine(<< <<"n", "1">>, <<"5", "m">> >>) }

\* lines joined by "\n"
RECURSIVE JoinText(_)
JoinText(lines) ==
    IF Len(lines) = 0 THEN <<>>
    ELSE IF Len(lines) = 1 THEN lines[1]
    ELSE lines[1] \o <<"\n">> \o JoinText(Tail(lines))

JoinTexts ==
    {JoinText(lines) : lines \in UNION {[1..k -> JoinLines] : k \in 0..MaxLines}}

JoinInit ==
    /\ join_pc = "nodes"
    /\ node_listing \in JoinListings
    /\ top_text \in JoinTexts
    /\ nodes_base = <<>>
    /\ nodes_metrics = <<>>
    /\ nodes_df = <<>>
    /\ ParseOff
    /\ PollOff
    /\ PivotOff

\* lines 129-145 for a listing that json.loads returned: base_df
LoadNodes ==
    /\ join_pc = "nodes"
    /\ join_pc' = IF DecodeNodes(node_listing).exc = "none" THEN "top" ELSE "raised"
    /\ nodes_base' = IF DecodeNodes(node_listing).exc = "none"
                     THEN DecodeNodes(node_listing).val ELSE <<>>
    /\ UNCHANGED <<node_listing, top_text, nodes_metrics, nodes_df,
                   parse_vars, poll_vars, pivot_vars>>

\* lines 150-171 for the text of `kubectl top nodes`: metrics_df
LoadMetrics ==
    /\ join_pc = "top"
    /\ join_pc' = IF DecodeTop(PyStr(top_text)).exc = "none" THEN "merge" ELSE "raised"
    /\ nodes_metrics' = IF DecodeTop(PyStr(top_text)).exc = "none"
                        THEN DecodeTop(PyStr(top_text)).val ELSE <<>>
    /\ UNCHANGED <<node_listing, top_text, nodes_base, nodes_df,
                   parse_vars, poll_vars, pivot_vars>>

\* lines 172-175: merged
Merge ==
    /\ join_pc = "merge"
    /\ nodes_df' = merged(nodes_base, nodes_metrics)
    /\ join_pc' = "done"
    /\ UNCHANGED <<node_listing, top_text, nodes_base, nodes_metrics,
                   parse_vars, poll_vars, pivot_vars>>

JoinNext == LoadNodes \/ LoadMetrics \/ Merge

SpecJoin == JoinInit /\ [][JoinNext]_vars

\* ------------------------------------------ the parser applied to its inputs
ParseInputs == {PyNone} \cup {PyStr(s) : s \in StrsUpTo(MaxLen)}

ParseInit ==
    /\ raw \in ParseInputs
    /\ parse_pc = "call"
    /\ parsed = Zero
    /\ PollOff
    /\ PivotOff
    /\ JoinOff

ParseCall ==
    /\ parse_pc = "call"
    /\ LET r == parse_resource_value(raw)
       IN /\ parse_pc' = IF r.exc = "none" THEN "returned" ELSE "raised"
          /\ parsed' = r
    /\ UNCHANGED <<raw, poll_vars, pivot_vars, join_vars>>

ParseNext == ParseCall

SpecParse == ParseInit /\ [][ParseNext]_vars

\* ------------------------------------------------- the parser's properties
IsDigitChar(c) == c \in Digits

\* an unsigned decimal numeral: digits with at most one point, one digit at least
IsNumeral(x) ==
    /\ \A i \in 1..Len(x) : x[i] \in Digits \cup {"."}
    /\ Cardinality({i \in 1..Len(x) : x[i] = "."}) <= 1
    /\ \E i \in 1..Len(x) : x[i] \in Digits

\* its value, NumeralMant / 10^NumeralFrac
NumeralMant(x) == DigitsToInt(SelectSeq(x, IsDigitChar))

NumeralFrac(x) ==
    Cardinality({i \in 1..Len(x) :
        x[i] \in Digits /\ \E j \in 1..(i - 1) : x[j] = "."})

\* the unit table as the specification gives it: <<suffix, base, exponent>>,
\* the factor being base^exponent; "m" divides by 1000, no suffix leaves x
UnitTable ==
    { << <<"K", "i">>, 1024, 1 >>, << <<"M", "i">>, 1024, 2 >>,
      << <<"G", "i">>, 1024, 3 >>, << <<"T", "i">>, 1024, 4 >>,
      << <<"K">>, 1000, 1 >>, << <<"M">>, 1000, 2 >>,
      << <<"G">>, 1000, 3 >>, << <<"T">>, 1000, 4 >>,
      << <<"m">>, 1000, -1 >>, << <<>>, 1, 0 >> }

\* the table suffixes s ends with (the empty suffix and "m" left out)
TableSuffixesOf(s) ==
    {u \in UnitTable : Len(u[1]) > 0 /\ u[1] # <<"m">> /\ EndsWith(s, u[1])}

\* C4: for every unsigned decimal numeral x, x + "m" parses to x / 1000, x
\* alone to x, and x + S to x times the factor of S for each S of the suffix
\* table; and a string that reaches the table is read with the longest table
\* suffix it ends with.
C4_TableValues ==
    (parse_pc # "call" /\ raw.t = "str") =>
        /\ \A k \in 0..Len(raw.v) : \A u \in UnitTable :
              LET x == SubSeq(raw.v, 1, k)
              IN (IsNumeral(x) /\ raw.v = x \o u[1]) =>
                    parsed = [exc |-> "none", mant |-> NumeralMant(x),
                              frac |-> NumeralFrac(x), base |-> u[2], exp |-> u[3]]
        /\ \A u \in TableSuffixesOf(raw.v) :
              ( /\ \A w \in TableSuffixesOf(raw.v) : Len(w[1]) <= Len(u[1])
                /\ ~EndsWith(raw.v, <<"m">>)
                /\ ~IsNumeral(raw.v)
                /\ PyFloat(DropLast(raw.v, Len(u[1]))).exc = "none" ) =>
                    (parsed.exc = "none" /\ parsed.base = u[2] /\ parsed.exp = u[3])

\* C4 witness: "5Ki" has been parsed, with the binary factor 1024
C4_Witness ==
    /\ parse_pc = "returned"
    /\ raw = PyStr(<<"5", "K", "i">>)
    /\ parsed.mant = 5 /\ parsed.base = 1024 /\ parsed.exp = 1

\* the suffix (of the table, or "m") that s ends with, if any
SuffixesOf(s) == {u \in UnitTable : Len(u[1]) > 0 /\ EndsWith(s, u[1])}

\* not a well-formed resource value: a recognised suffix whose remainder float()
\* rejects (the empty remainder included), or no recognised suffix and no numeral
IllFormed(s) ==
    IF SuffixesOf(s) # {}
    THEN \E u \in SuffixesOf(s) : PyFloat(DropLast(s, Len(u[1]))).exc # "none"
    ELSE ~IsNumeral(s)

\* C2: parse_resource_value never raises, and returns 0.0 whenever its input is
\* not a well-formed resource value.
C2_NeverRaises ==
    /\ parse_pc # "raised"
    /\ (parse_pc = "returned" /\ raw.t = "str" /\ IllFormed(raw.v)) => parsed.mant = 0

\* C8: parse_resource_value never returns a negative number.
C8_NonNegative ==
    parse_pc = "returned" => parsed.mant >= 0

\* ------------------------------------------------ the queries' properties
\* the fetch of a poll cycle failed: the command could not be run, it ended
\* with a nonzero exit code, or it printed nothing
FetchFailed(proc) ==
    \/ proc.raises
    \/ proc.returncode # 0
    \/ Strip(proc.stdout).v = <<>>

\* C1: whenever the fetch of the pod listing fails (nonzero exit code,
\* exception in the executor, empty standard output), get_pods returns an
\* empty collection and raises nothing.
C1_EmptyOnFetchFailure ==
    \A c \in Cycles :
        (pc[c] = "done" /\ op[c] = "get_pods" /\ FetchFailed(fetched[c][1])) =>
            results[c] = Return(EmptyDataFrame)

\* the command printed a listing: a JSON object whose items, if any, are a list
IsListing(proc) ==
    /\ ~proc.raises
    /\ proc.returncode = 0
    /\ proc.stdout.json.t = "dict"
    /\ ItemsOf(proc.stdout.json).t = "list"

\* the str at the end of a path of keys through nested objects, "" when a key
\* is missing
RECURSIVE PathOr(_, _)
PathOr(d, path) ==
    IF Len(path) = 0 THEN (IF d.t = "str" THEN d.v ELSE <<>>)
    ELSE IF d.t = "dict" /\ path[1] \in DOMAIN d.v THEN PathOr(d.v[path[1]], Tail(path))
    ELSE <<>>

\* the PodRecord of an item, as the specification describes it
PodRecordOf(item) ==
    [microservice |-> PathOr(item, <<"metadata", "labels", "app">>),
     svc_id |-> PathOr(item, <<"metadata", "labels", "svc-id">>),
     pod |-> PathOr(item, <<"metadata", "name">>),
     node |-> PathOr(item, <<"spec", "nodeName">>),
     phase |-> PathOr(item, <<"status", "phase">>)]

Bijections(n) ==
    {f \in [1..n -> 1..n] : \A i, j \in 1..n : f[i] = f[j] => i = j}

\* df holds the records of the items, each once, ascending by (microservice,
\* pod), records equal on both keys in the order of the items
SortedStableOf(df, items) ==
    /\ Len(df) = Len(items)
    /\ \A i, j \in 1..Len(df) : i < j => ~PodRowLess(df[j], df[i])
    /\ \E f \in Bijections(Len(df)) :
          /\ \A k \in 1..Len(df) : df[k] = PodRecordOf(items[f[k]])
          /\ \A k, l \in 1..Len(df) :
                (k < l /\ df[k].microservice = df[l].microservice
                       /\ df[k].pod = df[l].pod) => f[k] < f[l]

\* C5: decoding a pod listing with N items yields exactly N PodRecords,
\* ascending by (microservice, podName), ties in encounter order, a missing
\* field as the empty string.
C5_PodsDecodedSorted ==
    \A c \in Cycles :
        (pc[c] = "done" /\ op[c] = "get_pods" /\ IsListing(fetched[c][1])) =>
            /\ results[c].exc = "none"
            /\ SortedStableOf(results[c].val, ItemsOf(fetched[c][1].stdout.json).v)

\* C7: the pod and node decoders never raise on the content of the payload:
\* whatever the command printed, the query returns a result.
C7_DecodersNeverRaise ==
    \A c \in Cycles :
        (pc[c] = "done" /\ ~fetched[c][1].raises) => results[c].exc = "none"

\* the NodeUtilization records of a utilization text, as the specification
\* describes them: one per line of 5 tokens or more, in line order
UtilizationOf(text) == MetricRows(SplitLines(RStrip(LStrip(text))))

\* C9: decoding utilization text yields one NodeUtilization record per line of
\* at least 5 tokens, in line order, the raw strings kept verbatim; shorter
\* lines contribute nothing and empty input yields an empty result, without
\* error.
C9_UtilizationDecoded ==
    \A c \in Cycles :
        (pc[c] = "done" /\ op[c] = "get_node_info" /\ IsListing(fetched[c][1])) =>
            /\ results[c].exc = "none"
            /\ Len(fetched[c]) = 2
            /\ ~fetched[c][2].raises =>
                  Return(results[c].val[2]) = UtilizationOf(fetched[c][2].stdout.v)

\* what a poll cycle returns when it runs alone on the payloads procs
PollAlone(query, procs) ==
    IF query = "get_pods" THEN get_pods(run_cmd(procs[1]))
    ELSE get_node_info(run_cmd(procs[1]), procs[Len(procs)])

RECURSIVE RowSum(_, _)
RowSum(row, columns) ==
    IF Len(columns) = 0 THEN 0 ELSE row[columns[1]] + RowSum(row, Tail(columns))

\* the pod_count of node n in the pods-per-node table
PodCount(counts, n) ==
    counts[CHOOSE k \in 1..Len(counts) : counts[k].node = n].pod_count

\* C6: each pivot cell (node, microservice) is the number of PodRecords with
\* exactly that pair, 0 when there is none; the rows are the nodes observed,
\* the columns the microservices observed; and each row sums to the
\* pods-per-node count of its node.
C6_PivotCounts ==
    pivot_pc = "shown" =>
        /\ DOMAIN pivot.cells = NodesOf(pods_df)
        /\ \A n \in NodesOf(pods_df) :
              /\ DOMAIN pivot.cells[n] = ServicesOf(pods_df)
              /\ \A m \in ServicesOf(pods_df) :
                    pivot.cells[n][m] =
                        Cardinality({i \in 1..Len(pods_df) :
                            pods_df[i].node = n /\ pods_df[i].microservice = m})
              /\ RowSum(pivot.cells[n], pivot.columns) = PodCount(pods_per_node, n)

\* C6 witness: a pivot over two nodes with a cell of 2 and a cell of 0
C6_Witness ==
    /\ pivot_pc = "shown"
    /\ Cardinality(NodesOf(pods_df)) = 2
    /\ \E n \in NodesOf(pods_df) : \E m \in ServicesOf(pods_df) : pivot.cells[n][m] = 2
    /\ \E n \in NodesOf(pods_df) : \E m \in ServicesOf(pods_df) : pivot.cells[n][m] = 0

\* lines 62-80 on a decoded listing: as many rows as items, sorted and stable
\* (what C5 says of the decoding, once json.loads has returned the listing)
DecodedListingSorted ==
    pivot_pc = "loaded" => SortedStableOf(pods_df, ItemsOf(listing).v)

\* C3: for any capacity rows and any utilization rows, the NodeView built by
\* the left join holds every NodeCapacity row exactly once: it has
\* len(capacities) rows, the capacity rows in their order.
C3_EveryCapacityRowOnce ==
    join_pc = "done" =>
        /\ Len(nodes_df) = Len(nodes_base)
        /\ \A i \in 1..Len(nodes_base) : nodes_df[i].base = nodes_base[i]

\* the left join when no node has two utilization rows: one row per capacity
\* row, with the utilization row of its node or without one
JoinWithoutDuplicates ==
    (join_pc = "done"
        /\ \A i, j \in 1..Len(nodes_metrics) :
              nodes_metrics[i].node = nodes_metrics[j].node => i = j) =>
        /\ Len(nodes_df) = Len(nodes_base)
        /\ \A i \in 1..Len(nodes_base) : nodes_df[i].base = nodes_base[i]

\* the starts of the tokens of a line
TokenCount(line) ==
    Cardinality({i \in 1..Len(line) :
        ~IsSpace(line[i]) /\ (i = 1 \/ IsSpace(line[i - 1]))})

\* lines 152-169 on a utilization text: as many rows as lines of 5 tokens or
\* more, each with the node and the raw strings of its line (what C9 says of
\* the decoding, once it is handed the text)
UtilizationRowsPerLine ==
    join_pc \in {"merge", "done"} =>
        LET lines == SplitLines(top_text)
            long == {k \in 1..Len(lines) : TokenCount(lines[k]) >= 5}
        IN /\ Len(nodes_metrics) = Cardinality(long)
           /\ \A r \in 1..Len(nodes_metrics) :
                 \E k \in long :
                    /\ Cardinality({j \in long : j <= k}) = r
                    /\ nodes_metrics[r].node = Split(lines[k])[1]
                    /\ nodes_metrics[r].cpu_used_cores_raw = Split(lines[k])[2]
                    /\ nodes_metrics[r].mem_used_bytes_raw = Split(lines[k])[4]

====
